---- MODULE Spec2Model ----
(***************************************************************************)
(* MoodMate: the keyword sentiment classifier (server/services/sentiment)  *)
(* and the journal routes that use it (server/routes).                     *)
(*                                                                         *)
(* A text is a sequence of one-character strings, so that substring        *)
(* search, word boundaries, letter case and whitespace splitting are       *)
(* computed character by character as the JavaScript does.                 *)
(***************************************************************************)
EXTENDS Integers, Sequences, FiniteSets, TLC

(***************************************************************************)
(* Bounds of the model.                                                    *)
(***************************************************************************)
\* number of chunks of the lexicon a classified text is made of
MaxTyped == 3
\* number of filler words of the long filler chunk
PadLen == 10

(***************************************************************************)
(* Characters.                                                             *)
(***************************************************************************)
LowerLetters ==
    {"a","b","c","d","e","f","g","h","i","j","k","l","m",
     "n","o","p","q","r","s","t","u","v","w","x","y","z"}

UpperLetters ==
    {"A","B","C","D","E","F","G","H","I","J","K","L","M",
     "N","O","P","Q","R","S","T","U","V","W","X","Y","Z"}

Digits == {"0","1","2","3","4","5","6","7","8","9"}

\* the class \w of a JavaScript regular expression
WordChars == LowerLetters \cup UpperLetters \cup Digits \cup {"_"}

\* the class \s of a JavaScript regular expression (the ASCII part)
SpaceChars == {" ", "\t", "\n", "\r", "\f"}

\* String.prototype.toLowerCase on one character
LowerOf ==
    [c \in UpperLetters |->
        CASE c = "A" -> "a" [] c = "B" -> "b" [] c = "C" -> "c" [] c = "D" -> "d"
          [] c = "E" -> "e" [] c = "F" -> "f" [] c = "G" -> "g" [] c = "H" -> "h"
          [] c = "I" -> "i" [] c = "J" -> "j" [] c = "K" -> "k" [] c = "L" -> "l"
          [] c = "M" -> "m" [] c = "N" -> "n" [] c = "O" -> "o" [] c = "P" -> "p"
          [] c = "Q" -> "q" [] c = "R" -> "r" [] c = "S" -> "s" [] c = "T" -> "t"
          [] c = "U" -> "u" [] c = "V" -> "v" [] c = "W" -> "w" [] c = "X" -> "x"
          [] c = "Y" -> "y" [] c = "Z" -> "z"]

toLowerChar(c) == IF c \in UpperLetters THEN LowerOf[c] ELSE c

\* String.prototype.toLowerCase
toLowerCase(s) == [i \in 1..Len(s) |-> toLowerChar(s[i])]

(***************************************************************************)
(* The keyword tables.                                                     *)
(***************************************************************************)
MoodType == {"happy", "sad", "anxious", "suicidal", "neutral"}

moodKeywords == [
    happy |-> <<
        <<"h","a","p","p","y">>,
        <<"j","o","y">>,
        <<"e","x","c","i","t","e","d">>,
        <<"g","r","a","t","e","f","u","l">>,
        <<"b","l","e","s","s","e","d">>,
        <<"a","m","a","z","i","n","g">>,
        <<"w","o","n","d","e","r","f","u","l">>,
        <<"g","r","e","a","t">>,
        <<"f","a","n","t","a","s","t","i","c">>,
        <<"l","o","v","e">>,
        <<"c","e","l","e","b","r","a","t","i","o","n">>,
        <<"s","u","c","c","e","s","s">>,
        <<"a","c","h","i","e","v","e","m","e","n","t">>,
        <<"p","r","o","u","d">>,
        <<"s","m","i","l","e">>,
        <<"l","a","u","g","h">>
    >>,
    sad |-> <<
        <<"s","a","d">>,
        <<"d","e","p","r","e","s","s","e","d">>,
        <<"d","o","w","n">>,
        <<"u","p","s","e","t">>,
        <<"d","i","s","a","p","p","o","i","n","t","e","d">>,
        <<"h","e","a","r","t","b","r","o","k","e","n">>,
        <<"c","r","y","i","n","g">>,
        <<"t","e","a","r","s">>,
        <<"l","o","n","e","l","y">>,
        <<"e","m","p","t","y">>,
        <<"l","o","s","s">>,
        <<"g","r","i","e","f">>,
        <<"m","i","s","s">>,
        <<"h","u","r","t">>,
        <<"p","a","i","n">>
    >>,
    anxious |-> <<
        <<"a","n","x","i","o","u","s">>,
        <<"w","o","r","r","i","e","d">>,
        <<"n","e","r","v","o","u","s">>,
        <<"s","t","r","e","s","s">>,
        <<"p","a","n","i","c">>,
        <<"o","v","e","r","w","h","e","l","m","e","d">>,
        <<"s","c","a","r","e","d">>,
        <<"f","e","a","r">>,
        <<"t","e","n","s","i","o","n">>,
        <<"r","e","s","t","l","e","s","s">>,
        <<"u","n","c","e","r","t","a","i","n">>,
        <<"d","o","u","b","t">>,
        <<"p","r","e","s","s","u","r","e">>,
        <<"w","o","r","r","y">>
    >>,
    suicidal |-> <<
        <<"s","u","i","c","i","d","e">>,
        <<"k","i","l","l"," ","m","y","s","e","l","f">>,
        <<"e","n","d"," ","i","t"," ","a","l","l">>,
        <<"w","a","n","t"," ","t","o"," ","d","i","e">>,
        <<"n","o"," ","p","o","i","n","t">>,
        <<"h","o","p","e","l","e","s","s">>,
        <<"w","o","r","t","h","l","e","s","s">>,
        <<"b","e","t","t","e","r"," ","o","f","f"," ","d","e","a","d">>,
        <<"c","a","n","'","t"," ","g","o"," ","o","n">>,
        <<"g","i","v","e"," ","u","p">>,
        <<"e","n","d"," ","m","y"," ","l","i","f","e">>
    >>
]

\* Object.entries(moodKeywords): the keys in insertion order
moodKeywordsOrder == <<"happy", "sad", "anxious", "suicidal">>

\* Object.entries(moodScores): the keys in insertion order
moodScoresOrder == <<"happy", "sad", "anxious", "suicidal", "neutral">>

(***************************************************************************)
(* String helpers of the JavaScript runtime, as analyzeSentiment uses them.*)
(***************************************************************************)
\* s occurs in t at position i (1-based)
OccursAt(t, s, i) ==
    /\ i >= 1
    /\ i + Len(s) - 1 <= Len(t)
    /\ SubSeq(t, i, i + Len(s) - 1) = s

\* String.prototype.includes
includes(t, s) == \E i \in 1..(Len(t) + 1) : OccursAt(t, s, i)

\* the character before position p is a word character (p in 1..Len(t)+1)
WordBefore(t, p) == p > 1 /\ t[p - 1] \in WordChars

\* the character at position p is a word character
WordAt(t, p) == p <= Len(t) /\ t[p] \in WordChars

\* the assertion \b at position p
WordBoundary(t, p) == WordBefore(t, p) # WordAt(t, p)

\* /\bkeyword\b/gi matches t at position i; flag i compares letters
\* without regard to case
RegexMatchesAt(t, keyword, i) ==
    /\ i + Len(keyword) - 1 <= Len(t)
    /\ WordBoundary(t, i)
    /\ WordBoundary(t, i + Len(keyword))
    /\ toLowerCase(SubSeq(t, i, i + Len(keyword) - 1)) = toLowerCase(keyword)

\* the pattern without its flag g: match stops at the first match
matchLengthFirstOnly(t, keyword, from) ==
    IF \E i \in from..Len(t) : RegexMatchesAt(t, keyword, i) THEN 1 ELSE 0

\* the pattern without its two \b: every occurrence counts
RECURSIVE matchLengthNoBoundary(_, _, _)
matchLengthNoBoundary(t, keyword, from) ==
    LET starts == {i \in from..Len(t) :
                      /\ i + Len(keyword) - 1 <= Len(t)
                      /\ toLowerCase(SubSeq(t, i, i + Len(keyword) - 1)) = toLowerCase(keyword)}
    IN  IF starts = {} THEN 0
        ELSE LET first == CHOOSE i \in starts : \A j \in starts : i <= j
             IN  1 + matchLengthNoBoundary(t, keyword, first + Len(keyword))

\* String.prototype.match with flag g: the matches are found left to
\* right, each search resuming after the end of the previous match
RECURSIVE matchLength(_, _, _)
matchLength(t, keyword, from) ==
    LET starts == {i \in from..Len(t) : RegexMatchesAt(t, keyword, i)}
    IN  IF starts = {} THEN 0
        ELSE LET first == CHOOSE i \in starts : \A j \in starts : i <= j
             IN  1 + matchLength(t, keyword, first + Len(keyword))

\* String.prototype.split(/\s+/): the pieces between the maximal runs of
\* whitespace; a run at either end leaves an empty piece there
RECURSIVE splitFrom(_, _, _, _)
splitFrom(t, i, cur, acc) ==
    IF i > Len(t) THEN Append(acc, cur)
    ELSE IF t[i] \in SpaceChars
         THEN IF i > 1 /\ t[i - 1] \in SpaceChars
              THEN splitFrom(t, i + 1, cur, acc)
              ELSE splitFrom(t, i + 1, <<>>, Append(acc, cur))
         ELSE splitFrom(t, i + 1, Append(cur, t[i]), acc)

split(t) == splitFrom(t, 1, <<>>, <<>>)

(***************************************************************************)
(* analyzeSentiment.                                                       *)
(***************************************************************************)
\* confidence is a rational number <<numerator, denominator>>
Rat(n, d) == <<n, d>>
RatLeq(a, b) == a[1] * b[2] <= b[1] * a[2]
RatEq(a, b) == a[1] * b[2] = b[1] * a[2]
\* Math.min
RatMin(a, b) == IF RatLeq(a, b) THEN a ELSE b

\* the crisis check done with the whole-word pattern of the scoring loop
hasCrisisKeywordsWholeWord(lowerText) ==
    LET crisisKeywords == moodKeywords.suicidal
    IN  \E k \in 1..Len(crisisKeywords) :
            \E i \in 1..Len(lowerText) : RegexMatchesAt(lowerText, crisisKeywords[k], i)

\* crisisKeywords.some(keyword => lowerText.includes(keyword.toLowerCase()))
hasCrisisKeywords(lowerText) ==
    LET crisisKeywords == moodKeywords.suicidal
    IN  \E k \in 1..Len(crisisKeywords) :
            includes(lowerText, toLowerCase(crisisKeywords[k]))

\* the sum of matches.length over the keywords of one category
RECURSIVE sumMatches(_, _, _)
sumMatches(lowerText, keywords, k) ==
    IF k > Len(keywords) THEN 0
    ELSE matchLength(lowerText, keywords[k], 1)
         + sumMatches(lowerText, keywords, k + 1)

\* the forEach passing over the happy entry instead of the suicidal one
scoreOfSkippingHappy(lowerText, mood) ==
    IF /\ \E k \in 1..Len(moodKeywordsOrder) : moodKeywordsOrder[k] = mood
       /\ mood # "happy"
    THEN sumMatches(lowerText, moodKeywords[mood], 1)
    ELSE 0

\* one category of the forEach over Object.entries(moodKeywords): the
\* suicidal entry returns at once, the others add their matches
scoreOf(lowerText, mood) ==
    IF /\ \E k \in 1..Len(moodKeywordsOrder) : moodKeywordsOrder[k] = mood
       /\ mood # "suicidal"
    THEN sumMatches(lowerText, moodKeywords[mood], 1)
    ELSE 0

\* moodScores after the forEach
moodScores(lowerText) ==
    [happy |-> scoreOf(lowerText, "happy"),
     sad |-> scoreOf(lowerText, "sad"),
     anxious |-> scoreOf(lowerText, "anxious"),
     suicidal |-> scoreOf(lowerText, "suicidal"),
     neutral |-> scoreOf(lowerText, "neutral")]

\* Math.min in the place of Math.max
minScore(scores) ==
    CHOOSE m \in {scores[mood] : mood \in MoodType} :
        \A mood \in MoodType : scores[mood] >= m

\* Math.max(...Object.values(moodScores))
maxScore(scores) ==
    CHOOSE m \in {scores[mood] : mood \in MoodType} :
        \A mood \in MoodType : scores[mood] <= m

\* the last entry with the maximal score instead of the first
detectedMoodLast(scores, max) ==
    LET hits == {k \in 1..Len(moodScoresOrder) : scores[moodScoresOrder[k]] = max}
    IN  IF hits = {} THEN "neutral"
        ELSE moodScoresOrder[CHOOSE k \in hits : \A j \in hits : k >= j]

\* Object.entries(moodScores).find(([_, score]) => score === maxScore)?.[0]
detectedMood(scores, max) ==
    LET hits == {k \in 1..Len(moodScoresOrder) : scores[moodScoresOrder[k]] = max}
    IN  IF hits = {} THEN "neutral"
        ELSE moodScoresOrder[CHOOSE k \in hits : \A j \in hits : k <= j]

\* the ratio without the cap at 1
confidenceUncapped(max, words) == Rat(max * 10, Len(words))

\* Math.min(maxScore / words.length * 10, 1)
confidenceOf(max, words) == RatMin(Rat(max * 10, Len(words)), Rat(1, 1))

\* the crisis branch reporting the mood of its quote tag
analyzeSentimentCrisisAsSad(text) ==
    LET lowerText == toLowerCase(text)
        words == split(lowerText)
    IN  IF hasCrisisKeywords(lowerText)
        THEN [mood |-> "sad", confidence |-> Rat(9, 10), isCrisis |-> TRUE]
        ELSE LET scores == moodScores(lowerText)
                 max == maxScore(scores)
             IN  IF max = 0
                 THEN [mood |-> "neutral", confidence |-> Rat(5, 10), isCrisis |-> FALSE]
                 ELSE [mood |-> detectedMood(scores, max),
                       confidence |-> confidenceOf(max, words),
                       isCrisis |-> FALSE]

analyzeSentiment(text) ==
    LET lowerText == toLowerCase(text)
        words == split(lowerText)
    IN  IF hasCrisisKeywords(lowerText)
        THEN [mood |-> "suicidal", confidence |-> Rat(9, 10), isCrisis |-> TRUE]
        ELSE LET scores == moodScores(lowerText)
                 max == maxScore(scores)
             IN  IF max = 0
                 THEN [mood |-> "neutral", confidence |-> Rat(5, 10), isCrisis |-> FALSE]
                 ELSE [mood |-> detectedMood(scores, max),
                       confidence |-> confidenceOf(max, words),
                       isCrisis |-> FALSE]

\* the switch without its case 'suicidal': the mood falls to the default
getMoodQuoteTagCrisisGeneral(mood) ==
    CASE mood = "happy" -> "happy"
      [] mood = "sad" -> "sad"
      [] mood = "anxious" -> "anxious"
      [] OTHER -> "general"

\* getMoodQuoteTag
getMoodQuoteTag(mood) ==
    CASE mood = "happy" -> "happy"
      [] mood \in {"sad", "suicidal"} -> "sad"
      [] mood = "anxious" -> "anxious"
      [] OTHER -> "general"

(***************************************************************************)
(* State.                                                                  *)
(***************************************************************************)
VARIABLES
    users,           \* table users, in the order of their serial ids
    journalEntries,  \* table journal_entries, in the order of their serial ids
    session,         \* req.session.userId of each session, 0 when unset
    transporter,     \* EmailService.transporter
    alerts,          \* the calls of sendCrisisAlert so far
    response,        \* the status of the last response, 0 before the first
    catalogue,       \* table quotes: the serial ids of its rows
    clock,           \* the time of the server, in hours since the epoch
    zone,            \* the time zone the server process runs in
    weekly,          \* the body of the last answer of GET /api/mood/weekly
    fetched,         \* the entries the last GET /api/mood/weekly got from the table
    signups,         \* concurrent signups: the requests received, in order of arrival
    input,            \* classifier alone: the text typed so far
    nTyped,          \* classifier alone: the number of chunks typed
    outcome,         \* classifier alone: "pending", or how the call ended
    result           \* classifier alone: the value analyzeSentiment returned

svars == <<users, journalEntries, session, transporter, alerts, response, catalogue>>
cvars == <<input, nTyped, outcome, result>>
wvars == <<clock, zone, weekly, fetched>>
vars == <<users, journalEntries, session, transporter, alerts, response, catalogue,
          clock, zone, weekly, fetched, signups, input, nTyped, outcome, result>>

(***************************************************************************)
(* Bounds of the server model.                                             *)
(***************************************************************************)
\* journal entries created in one run
MaxEntries == 1
\* Math.random() takes the values k / RandomSteps, k in 0..RandomSteps-1
RandomSteps == 2

Sessions == {"s1"}
Emails == {"a@x.org"}
TrustedEmails == {"t1@x.org", "t2@x.org"}
\* the empty password fails min(1) and min(8)
Passwords == {"", "password1"}
\* the texts a client posts: none, a crisis phrase, a sad word
EntryTexts == {
    <<>>,
    <<"N","o"," ","P","o","i","n","t">>,
    <<"S","a","d">>
}
\* the texts a client posts in the weeks of the mood chart
WeekTexts == {
    <<"h","a","p","p","y">>,
    <<"S","a","d">>
}

(***************************************************************************)
(* Storage (DatabaseStorage) and the quote catalogue.                      *)
(***************************************************************************)
\* the moodTag of the quotes initializeQuotes inserts, by serial id
quotes ==
    [id \in 1..36 |->
        IF id <= 8 THEN "happy"
        ELSE IF id <= 17 THEN "sad"
        ELSE IF id <= 26 THEN "anxious"
        ELSE "general"]

\* what the table quotes holds when the server starts: nothing, or what an
\* earlier run left in it, here one happy quote
ExistingQuotes == {{}, {1}}

\* DatabaseStorage.initializeQuotes: a table with a row is left as it is,
\* an empty one receives the initial quotes
initializeQuotes(existingQuotes) ==
    IF existingQuotes # {} THEN existingQuotes ELSE 1..Len(quotes)

\* a query that returns the quotes of every tag
getQuotesOfAnyTag(moodTag) ==
    SelectSeq([id \in 1..Len(quotes) |-> id], LAMBDA id : id \in catalogue)

\* DatabaseStorage.getQuotesByMoodTag: the ids of the quotes of a tag
getQuotesByMoodTag(moodTag) ==
    SelectSeq([id \in 1..Len(quotes) |-> id],
              LAMBDA id : id \in catalogue /\ quotes[id] = moodTag)

\* DatabaseStorage.getUser: the index of the row, 0 for undefined
getUser(id) == IF id \in 1..Len(users) THEN id ELSE 0

\* DatabaseStorage.getUserByEmail: the index of the row, 0 for undefined
getUserByEmail(email) ==
    IF \E i \in 1..Len(users) : users[i].email = email
    THEN CHOOSE i \in 1..Len(users) : users[i].email = email
    ELSE 0

\* DatabaseStorage.getJournalEntryWithQuote: the index of the row, 0 for undefined
getJournalEntryWithQuote(id) == IF id \in 1..Len(journalEntries) THEN id ELSE 0

\* bcrypt.hash and bcrypt.compare
bcryptHash(password) == <<"bcrypt", password>>
\* a comparison that accepts every password
bcryptCompareAny(password, passwordHash) == TRUE

\* bcrypt.compare(password, user.passwordHash)
bcryptCompare(password, passwordHash) == passwordHash = bcryptHash(password)

(***************************************************************************)
(* Routes (registerRoutes).  A handler runs to its response in one step;  *)
(* the storage call that rejects, if any, is an input of the step.         *)
(***************************************************************************)
NoFailure == "none"

\* res.status(status).json(...): the status the handler answers with
Answer(route, status) == response' = status

\* a guard that lets every request through
requireAuthAlways(s) == TRUE

\* requireAuth lets the request through
requireAuth(s) == session[s] # 0

\* a random source that also takes the value 1
randomIndexInclusive(k, length) == ((k + 1) * length) \div RandomSteps

\* Math.floor(Math.random() * availableQuotes.length), Math.random() = k / RandomSteps
randomIndex(k, length) == (k * length) \div RandomSteps

\* the first quote of the table where availableQuotes has no element
randomQuoteIdOrFirst(availableQuotes, k) ==
    LET index == randomIndex(k, Len(availableQuotes))
    IN  IF index + 1 \in 1..Len(availableQuotes) THEN availableQuotes[index + 1] ELSE 1

\* availableQuotes[...]?.id || null, null written 0
randomQuoteId(availableQuotes, k) ==
    LET index == randomIndex(k, Len(availableQuotes))
    IN  IF index + 1 \in 1..Len(availableQuotes) THEN availableQuotes[index + 1] ELSE 0

\* the test of sentimentResult.isCrisis for the mood of the quote tag
crisisDetectedBySadTag(sentimentResult) == getMoodQuoteTag(sentimentResult.mood) = "sad"

\* if (sentimentResult.isCrisis)
crisisDetected(sentimentResult) == sentimentResult.isCrisis

\* a request that fails when its alert was not delivered
statusFailingWithAlert(delivered, status) == IF delivered THEN status ELSE 500

\* try { await emailService.sendCrisisAlert(...) } catch (emailError) { }:
\* the request goes on to its answer whatever became of the alert
statusAfterAlert(delivered, status) == status

\* EmailService.sendCrisisAlert: the call is recorded with what became of it
sendCrisisAlert(data, mailOk) ==
    alerts' = Append(alerts,
        [userEmail |-> data.userEmail,
         trustedPersonEmail |-> data.trustedPersonEmail,
         entryText |-> data.entryText,
         delivered |-> (transporter = "ready" /\ mailOk)])

SignupRoute == "POST /api/auth/signup"
LoginRoute == "POST /api/auth/login"
LogoutRoute == "POST /api/auth/logout"
MeRoute == "GET /api/auth/me"
CreateEntryRoute == "POST /api/journal/entries"
ListEntriesRoute == "GET /api/journal/entries"
GetEntryRoute == "GET /api/journal/entries/:id"
RevealQuoteRoute == "POST /api/journal/entries/:id/reveal-quote"
ChangePasswordRoute == "POST /api/profile/change-password"
UpdateTrustedEmailRoute == "POST /api/profile/update-trusted-email"

\* POST /api/auth/signup
Signup(s, email, password, trustedEmail) ==
    /\ IF Len(password) < 1
       THEN /\ Answer(SignupRoute, 400)
            /\ UNCHANGED <<users, session>>
       ELSE IF getUserByEmail(email) # 0
       THEN /\ Answer(SignupRoute, 409)
            /\ UNCHANGED <<users, session>>
       ELSE /\ users' = Append(users,
                [email |-> email,
                 passwordHash |-> bcryptHash(password),
                 trustedEmail |-> trustedEmail])
            /\ session' = [session EXCEPT ![s] = Len(users) + 1]
            /\ Answer(SignupRoute, 200)
    /\ UNCHANGED <<journalEntries, transporter, alerts>>
    /\ UNCHANGED <<catalogue, cvars, wvars, signups>>

\* POST /api/auth/login
Login(s, email, password) ==
    /\ IF Len(password) < 1
       THEN /\ Answer(LoginRoute, 400)
            /\ UNCHANGED session
       ELSE IF getUserByEmail(email) = 0
       THEN /\ Answer(LoginRoute, 401)
            /\ UNCHANGED session
       ELSE IF ~bcryptCompare(password, users[getUserByEmail(email)].passwordHash)
       THEN /\ Answer(LoginRoute, 401)
            /\ UNCHANGED session
       ELSE /\ session' = [session EXCEPT ![s] = getUserByEmail(email)]
            /\ Answer(LoginRoute, 200)
    /\ UNCHANGED <<users, journalEntries, transporter, alerts>>
    /\ UNCHANGED <<catalogue, cvars, wvars, signups>>

\* POST /api/auth/logout
Logout(s) ==
    /\ session' = [session EXCEPT ![s] = 0]
    /\ Answer(LogoutRoute, 200)
    /\ UNCHANGED <<users, journalEntries, transporter, alerts>>
    /\ UNCHANGED <<catalogue, cvars, wvars, signups>>

\* GET /api/auth/me
GetMe(s) ==
    /\ IF ~requireAuth(s) THEN Answer(MeRoute, 401)
       ELSE IF getUser(session[s]) = 0 THEN Answer(MeRoute, 404)
       ELSE Answer(MeRoute, 200)
    /\ UNCHANGED <<users, journalEntries, session, transporter, alerts>>
    /\ UNCHANGED <<catalogue, cvars, wvars, signups>>

\* analyzeSentiment(entryText) for the texts a client posts, computed once
RECURSIVE sentimentOver(_)
sentimentOver(texts) ==
    IF texts = {} THEN <<>>
    ELSE LET entryText == CHOOSE t \in texts : TRUE
         IN  (entryText :> analyzeSentiment(entryText)) @@ sentimentOver(texts \ {entryText})

sentimentTable == sentimentOver(EntryTexts \cup WeekTexts)
sentimentOf(entryText) == sentimentTable[entryText]

\* POST /api/journal/entries
CreateEntry(s, entryText, k, failing, mailOk) ==
    LET userId == session[s]
        sentimentResult == sentimentOf(entryText)
        quoteTag == getMoodQuoteTag(sentimentResult.mood)
        availableQuotes == getQuotesByMoodTag(quoteTag)
        entry == [userId |-> userId,
                  entryText |-> entryText,
                  detectedMood |-> sentimentResult.mood,
                  quoteId |-> randomQuoteId(availableQuotes, k),
                  isQuoteRevealed |-> FALSE,
                  createdAt |-> clock]
        user == getUser(userId)
    IN  /\ IF ~requireAuth(s)
           THEN /\ Answer(CreateEntryRoute, 401)
                /\ UNCHANGED <<journalEntries, alerts>>
           ELSE IF entryText = <<>>
           THEN /\ Answer(CreateEntryRoute, 400)
                /\ UNCHANGED <<journalEntries, alerts>>
           ELSE IF failing \in {"getQuotesByMoodTag", "createJournalEntry"}
           THEN /\ Answer(CreateEntryRoute, 500)
                /\ UNCHANGED <<journalEntries, alerts>>
           ELSE /\ journalEntries' = Append(journalEntries, entry)
                /\ IF ~crisisDetected(sentimentResult)
                   THEN /\ failing # "getUser"
                        /\ UNCHANGED alerts
                        /\ Answer(CreateEntryRoute,
                                  IF failing = "getJournalEntryWithQuote" THEN 500 ELSE 200)
                   ELSE IF failing = "getUser"
                   THEN /\ UNCHANGED alerts
                        /\ Answer(CreateEntryRoute, 500)
                   ELSE /\ IF user # 0
                           THEN sendCrisisAlert(
                                    [userEmail |-> users[user].email,
                                     trustedPersonEmail |-> users[user].trustedEmail,
                                     entryText |-> entryText], mailOk)
                           ELSE UNCHANGED alerts
                        /\ Answer(CreateEntryRoute,
                                  statusAfterAlert(
                                      user # 0 /\ transporter = "ready" /\ mailOk,
                                      IF failing = "getJournalEntryWithQuote"
                                      THEN 500 ELSE 200))
        /\ UNCHANGED <<users, session, transporter>>
        /\ UNCHANGED <<catalogue, cvars, wvars, signups>>

\* GET /api/journal/entries
ListEntries(s) ==
    /\ IF ~requireAuth(s) THEN Answer(ListEntriesRoute, 401)
       ELSE Answer(ListEntriesRoute, 200)
    /\ UNCHANGED <<users, journalEntries, session, transporter, alerts>>
    /\ UNCHANGED <<catalogue, cvars, wvars, signups>>

\* an entry is found whoever owns it
entryMissing(entry, s) == entry = 0

\* if (!entry || entry.userId !== req.session.userId!)
entryNotFound(entry, s) == entry = 0 \/ journalEntries[entry].userId # session[s]

\* a reveal that flips the flag
markQuoteToggled(entryId) ==
    [journalEntries EXCEPT ![entryId].isQuoteRevealed = ~journalEntries[entryId].isQuoteRevealed]

\* update(journalEntries).set({ isQuoteRevealed: true }).where(eq(id, entryId))
markQuoteAsRevealed(entryId) ==
    [journalEntries EXCEPT ![entryId].isQuoteRevealed = TRUE]

\* GET /api/journal/entries/:id
GetEntry(s, entryId) ==
    LET entry == getJournalEntryWithQuote(entryId)
    IN  /\ IF ~requireAuth(s) THEN Answer(GetEntryRoute, 401)
           ELSE IF entryNotFound(entry, s)
           THEN Answer(GetEntryRoute, 404)
           ELSE Answer(GetEntryRoute, 200)
        /\ UNCHANGED <<users, journalEntries, session, transporter, alerts>>
        /\ UNCHANGED <<catalogue, cvars, wvars, signups>>

\* POST /api/journal/entries/:id/reveal-quote
RevealQuote(s, entryId) ==
    LET entry == getJournalEntryWithQuote(entryId)
    IN  /\ IF ~requireAuth(s)
           THEN /\ Answer(RevealQuoteRoute, 401)
                /\ UNCHANGED journalEntries
           ELSE IF entryNotFound(entry, s)
           THEN /\ Answer(RevealQuoteRoute, 404)
                /\ UNCHANGED journalEntries
           ELSE /\ journalEntries' = markQuoteAsRevealed(entryId)
                /\ Answer(RevealQuoteRoute, 200)
        /\ UNCHANGED <<users, session, transporter, alerts>>
        /\ UNCHANGED <<catalogue, cvars, wvars, signups>>

\* POST /api/profile/change-password
ChangePassword(s, currentPassword, newPassword) ==
    LET userId == session[s]
    IN  /\ IF ~requireAuth(s)
           THEN /\ Answer(ChangePasswordRoute, 401)
                /\ UNCHANGED users
           ELSE IF Len(currentPassword) < 1 \/ Len(newPassword) < 8
           THEN /\ Answer(ChangePasswordRoute, 400)
                /\ UNCHANGED users
           ELSE IF getUser(userId) = 0
           THEN /\ Answer(ChangePasswordRoute, 404)
                /\ UNCHANGED users
           ELSE IF ~bcryptCompare(currentPassword, users[userId].passwordHash)
           THEN /\ Answer(ChangePasswordRoute, 400)
                /\ UNCHANGED users
           ELSE /\ users' = [users EXCEPT ![userId].passwordHash = bcryptHash(newPassword)]
                /\ Answer(ChangePasswordRoute, 200)
        /\ UNCHANGED <<journalEntries, session, transporter, alerts>>
        /\ UNCHANGED <<catalogue, cvars, wvars, signups>>

\* POST /api/profile/update-trusted-email
UpdateTrustedEmail(s, trustedEmail) ==
    LET userId == session[s]
    IN  /\ IF ~requireAuth(s)
           THEN /\ Answer(UpdateTrustedEmailRoute, 401)
                /\ UNCHANGED users
           ELSE /\ users' = [i \in 1..Len(users) |->
                                IF i = userId
                                THEN [users[i] EXCEPT !.trustedEmail = trustedEmail]
                                ELSE users[i]]
                /\ Answer(UpdateTrustedEmailRoute, 200)
        /\ UNCHANGED <<journalEntries, session, transporter, alerts>>
        /\ UNCHANGED <<catalogue, cvars, wvars, signups>>

(***************************************************************************)
(* Dates.  A Date is its time value, here in hours since the epoch; the    *)
(* date key toISOString().split('T')[0] of a Date is the number of its     *)
(* UTC day.  A time zone has the offset of local time from UTC, in hours,  *)
(* before and after one change of the offset.                              *)
(***************************************************************************)
HoursPerDay == 24

\* the Date of an hour of a UTC day
Instant(day, hour) == day * HoursPerDay + hour

\* UTC, a zone six hours ahead of UTC that never changes its offset, and a
\* zone that ends its summer time at 01:00 UTC of day 5
Zones == {
    [before |-> 0, after |-> 0, at |-> Instant(0, 0)],
    [before |-> 6, after |-> 6, at |-> Instant(0, 0)],
    [before |-> 1, after |-> 0, at |-> Instant(5, 1)]
}

\* the times at which the model lets something happen
Instants == {Instant(0, 0), Instant(2, 0), Instant(2, 23), Instant(8, 0), Instant(8, 23)}

\* the offset of local time in force at time t
offsetAt(z, t) == IF t >= z.at THEN z.after ELSE z.before

\* the local time of t
localTime(z, t) == t + offsetAt(z, t)

\* the time of a local time: with the offset before the change where that
\* is a time before the change, with the offset after it where that is a
\* time after it, and with the offset before it for a local time the
\* change skips
utcOfLocal(z, l) ==
    IF l - z.before < z.at THEN l - z.before
    ELSE IF l - z.after >= z.at THEN l - z.after
    ELSE l - z.before

\* Date.prototype.getDate: the local day of t; the days of the month are
\* numbered on without end, as if the Dates of one request lay in one month
getDate(z, t) == localTime(z, t) \div HoursPerDay

\* Date.prototype.setDate: the local day replaced, the local time of day kept
setDate(z, t, day) == utcOfLocal(z, day * HoursPerDay + (localTime(z, t) % HoursPerDay))

\* toISOString().split('T')[0]: the UTC day
toDateKey(t) == t \div HoursPerDay

\* new Date(): the reading number k of the clock by a handler during which
\* the clock moves on by an hour before the reading number lateFrom
readClock(k, lateFrom) == IF k >= lateFrom THEN clock + 1 ELSE clock

\* the orders in which the table can return its rows by descending
\* createdAt: rows of one createdAt come in any order
DescOrders ==
    {p \in Permutations(1..Len(journalEntries)) :
        \A a \in 1..Len(journalEntries), b \in 1..Len(journalEntries) :
            a < b => journalEntries[p[a]].createdAt >= journalEntries[p[b]].createdAt}

\* DatabaseStorage.getUserEntriesInDateRange, the rows coming in order
getUserEntriesInDateRange(userId, startDate, endDate, order) ==
    SelectSeq([n \in 1..Len(order) |-> journalEntries[order[n]]],
              LAMBDA entry : /\ entry.userId = userId
                             /\ entry.createdAt >= startDate
                             /\ entry.createdAt <= endDate)

\* moodByDate[dateKey] || []
dayMoodsOf(entries, dateKey) ==
    LET ofDay == SelectSeq(entries, LAMBDA entry : toDateKey(entry.createdAt) = dateKey)
    IN  [n \in 1..Len(ofDay) |-> ofDay[n].detectedMood]

\* Object.entries(moodCounts): the pairs <<mood, count>>, the moods in
\* the order of their first appearance in dayMoods
moodCountsOf(dayMoods) ==
    LET firsts == SelectSeq([j \in 1..Len(dayMoods) |-> j],
                            LAMBDA j : \A l \in 1..(j - 1) : dayMoods[l] # dayMoods[j])
    IN  [n \in 1..Len(firsts) |->
            <<dayMoods[firsts[n]],
              Len(SelectSeq(dayMoods, LAMBDA mood : mood = dayMoods[firsts[n]]))>>]

\* the sort by ascending count
RECURSIVE sortedMoodsAscending(_)
sortedMoodsAscending(counts) ==
    IF counts = <<>> THEN <<>>
    ELSE LET rest == sortedMoodsAscending(Tail(counts))
         IN  SelectSeq(rest, LAMBDA pair : pair[2] < Head(counts)[2])
             \o <<Head(counts)>>
             \o SelectSeq(rest, LAMBDA pair : pair[2] >= Head(counts)[2])

\* .sort((a, b) => b[1] - a[1]): by descending count, pairs of one count
\* keeping their order
RECURSIVE sortedMoodsOf(_)
sortedMoodsOf(counts) ==
    IF counts = <<>> THEN <<>>
    ELSE LET rest == sortedMoodsOf(Tail(counts))
         IN  SelectSeq(rest, LAMBDA pair : pair[2] > Head(counts)[2])
             \o <<Head(counts)>>
             \o SelectSeq(rest, LAMBDA pair : pair[2] <= Head(counts)[2])

\* let dominantMood = 'happy'
defaultMoodHappy == "happy"

\* let dominantMood = 'neutral'
defaultMood == "neutral"

\* the most frequent mood taken without the check for a tie
dominantMoodWithoutTieCheck(dayMoods) ==
    IF Len(dayMoods) > 0
    THEN sortedMoodsOf(moodCountsOf(dayMoods))[1][1]
    ELSE defaultMood

\* the dominant mood of a day of the loop
dominantMoodOf(dayMoods) ==
    IF Len(dayMoods) > 0
    THEN LET sortedMoods == sortedMoodsOf(moodCountsOf(dayMoods))
             topMood == sortedMoods[1]
             tiedMoods == SelectSeq(sortedMoods, LAMBDA pair : pair[2] = topMood[2])
         IN  IF Len(tiedMoods) > 1 THEN "neutral" ELSE topMood[1]
    ELSE defaultMood

\* a loop from i = 5
loopOffsetsFromFive == <<5, 4, 3, 2, 1, 0>>

\* for (let i = 6; i >= 0; i--): the values of i
loopOffsets == <<6, 5, 4, 3, 2, 1, 0>>

\* startDate.setDate(endDate.getDate() - 6)
WeekStartOffset == 6

WeeklyRoute == "GET /api/mood/weekly"

NoWeekly == <<>>

\* the count of the most frequent mood in the place of dayMoods.length
entryCountOfTopMood(dayMoods) ==
    IF Len(dayMoods) > 0 THEN sortedMoodsOf(moodCountsOf(dayMoods))[1][2] ELSE 0

\* entries: dayMoods.length
entryCountOf(dayMoods) == Len(dayMoods)

\* the range query for the rows of every user
entriesOfAnyUser(userId, lateFrom, order) ==
    LET endDate == readClock(1, lateFrom)
        startDate == setDate(zone, readClock(2, lateFrom),
                             getDate(zone, endDate) - WeekStartOffset)
    IN  SelectSeq([n \in 1..Len(order) |-> journalEntries[order[n]]],
                  LAMBDA entry : /\ entry.createdAt >= startDate
                                 /\ entry.createdAt <= endDate)

\* const entries: the rows of the user from startDate to endDate
entriesOf(userId, lateFrom, order) ==
    LET endDate == readClock(1, lateFrom)
        startDate == setDate(zone, readClock(2, lateFrom),
                             getDate(zone, endDate) - WeekStartOffset)
    IN  getUserEntriesInDateRange(userId, startDate, endDate, order)

\* weeklyData: one point per value of i
weeklyDataOf(userId, lateFrom, order) ==
    LET entries == entriesOf(userId, lateFrom, order)
    IN  [n \in 1..Len(loopOffsets) |->
            LET date == setDate(zone, readClock(2 + n, lateFrom),
                                getDate(zone, readClock(2 + n, lateFrom))
                                    - loopOffsets[n])
                dateKey == toDateKey(date)
                dayMoods == dayMoodsOf(entries, dateKey)
            IN  [date |-> dateKey,
                 mood |-> dominantMoodOf(dayMoods),
                 entries |-> entryCountOf(dayMoods)]]

\* GET /api/mood/weekly
WeeklyMood(s, failing, lateFrom, order) ==
    LET userId == session[s]
    IN  /\ IF ~requireAuth(s)
           THEN /\ Answer(WeeklyRoute, 401)
                /\ UNCHANGED <<weekly, fetched, clock>>
           ELSE IF failing = "getUserEntriesInDateRange"
           THEN /\ Answer(WeeklyRoute, 500)
                /\ UNCHANGED <<weekly, fetched, clock>>
           ELSE /\ Answer(WeeklyRoute, 200)
                /\ fetched' = entriesOf(userId, lateFrom, order)
                /\ weekly' = weeklyDataOf(userId, lateFrom, order)
                /\ clock' = readClock(2 + Len(loopOffsets), lateFrom)
        /\ UNCHANGED <<users, journalEntries, session, transporter, alerts, catalogue, zone>>
        /\ UNCHANGED <<cvars, signups>>

\* the clock and the mood chart while the other routes run: no time
\* passes, the server runs in UTC
ClockIdle ==
    /\ clock = Instant(0, 0)
    /\ zone = [before |-> 0, after |-> 0, at |-> Instant(0, 0)]
    /\ weekly = NoWeekly
    /\ fetched = <<>>

\* no signup has been received
NoSignups == <<>>

StorageCalls == {NoFailure, "getQuotesByMoodTag", "createJournalEntry",
                 "getUser", "getJournalEntryWithQuote"}

NoResult == [mood |-> "none", confidence |-> Rat(0, 1), isCrisis |-> FALSE]

\* the classifier variables while the server runs
ClassifierIdle ==
    /\ input = <<>>
    /\ nTyped = 0
    /\ outcome = "pending"
    /\ result = NoResult

\* after registerRoutes: empty tables, no session, and a transporter that
\* exists only if the e-mail credentials were configured
Init ==
    /\ users = <<>>
    /\ journalEntries = <<>>
    /\ session = [s \in Sessions |-> 0]
    /\ transporter \in {"null", "ready"}
    /\ alerts = <<>>
    /\ response = 0
    /\ \E existingQuotes \in ExistingQuotes : catalogue = initializeQuotes(existingQuotes)
    /\ ClockIdle
    /\ signups = NoSignups
    /\ ClassifierIdle

Next ==
    \/ \E s \in Sessions, email \in Emails, password \in Passwords,
          trustedEmail \in TrustedEmails : Signup(s, email, password, trustedEmail)
    \/ \E s \in Sessions, email \in Emails, password \in Passwords :
          Login(s, email, password)
    \/ \E s \in Sessions : Logout(s)
    \/ \E s \in Sessions : GetMe(s)
    \/ \E s \in Sessions, entryText \in EntryTexts, k \in 0..(RandomSteps - 1),
          failing \in StorageCalls, mailOk \in BOOLEAN :
          /\ Len(journalEntries) < MaxEntries
          /\ CreateEntry(s, entryText, k, failing, mailOk)
    \/ \E s \in Sessions : ListEntries(s)
    \/ \E s \in Sessions, entryId \in 1..MaxEntries : GetEntry(s, entryId)
    \/ \E s \in Sessions, entryId \in 1..MaxEntries : RevealQuote(s, entryId)
    \/ \E s \in Sessions, currentPassword \in Passwords, newPassword \in Passwords :
          ChangePassword(s, currentPassword, newPassword)
    \/ \E s \in Sessions, trustedEmail \in TrustedEmails :
          UpdateTrustedEmail(s, trustedEmail)
    \* the chart of a logged-in user is explored in SpecWeekly and SpecTwo
    \/ \E s \in Sessions, failing \in {NoFailure, "getUserEntriesInDateRange"},
          order \in DescOrders :
          /\ session[s] = 0
          /\ WeeklyMood(s, failing, 3 + Len(loopOffsets), order)

Spec == Init /\ [][Next]_vars

(***************************************************************************)
(* The classifier on its own: a text is typed chunk by chunk and then      *)
(* handed to analyzeSentiment.                                             *)
(***************************************************************************)
\* PadLen filler words, each after one space: " a a a ..."
Filler == [i \in 1..(2 * PadLen) |-> IF i % 2 = 1 THEN " " ELSE "a"]

Lexicon == {
    <<"h","a","p","p","y">>,
    <<"S","a","d">>,
    <<"w","o","r","r","y">>,
    <<"u","n">>,
    <<"N","o"," ","P","o","i","n","t">>,
    <<" ">>,
    <<",">>,
    Filler
}

\* the server variables while the classifier runs alone
ServerIdle ==
    /\ users = <<>>
    /\ journalEntries = <<>>
    /\ session = [s \in Sessions |-> 0]
    /\ transporter = "null"
    /\ alerts = <<>>
    /\ response = 0
    /\ catalogue = initializeQuotes({})
    /\ ClockIdle
    /\ signups = NoSignups

InitClassify == ClassifierIdle /\ ServerIdle

Type(chunk) ==
    /\ outcome = "pending"
    /\ nTyped < MaxTyped
    /\ input' = input \o chunk
    /\ nTyped' = nTyped + 1
    /\ UNCHANGED <<outcome, result>>
    /\ UNCHANGED <<svars, wvars, signups>>

\* analyzeSentiment has no throw statement and calls nothing that throws
\* on a string: every call returns
Analyze ==
    /\ outcome = "pending"
    /\ result' = analyzeSentiment(input)
    /\ outcome' = "returned"
    /\ UNCHANGED <<input, nTyped>>
    /\ UNCHANGED <<svars, wvars, signups>>

NextClassify ==
    \/ \E chunk \in Lexicon : Type(chunk)
    \/ Analyze

SpecClassify == InitClassify /\ [][NextClassify]_vars

(***************************************************************************)
(* The mood chart: a signed-up user posts entries as time passes and then  *)
(* asks for the weekly moods.                                              *)
(***************************************************************************)
\* journal entries posted before the chart is asked for
MaxWeekEntries == 3

\* GET /api/mood/weekly reads the clock for endDate, for startDate and
\* once per day of the loop.  The clock moves on before startDate is read,
\* or in the middle of the loop, or not at all during the request
LateFroms == {2, 6, 3 + Len(loopOffsets)}

\* after a signup: one user, logged in, the initial quotes, no entry yet
InitWeekly ==
    /\ users = <<[email |-> "a@x.org",
                  passwordHash |-> bcryptHash("password1"),
                  trustedEmail |-> "t1@x.org"]>>
    /\ journalEntries = <<>>
    /\ session = [s \in Sessions |-> 1]
    /\ transporter = "null"
    /\ alerts = <<>>
    /\ response = 200
    /\ catalogue = initializeQuotes({})
    /\ clock = Instant(0, 0)
    /\ zone \in Zones
    /\ weekly = NoWeekly
    /\ fetched = <<>>
    /\ signups = NoSignups
    /\ ClassifierIdle

\* time passes
Tick(t) ==
    /\ t > clock
    /\ clock' = t
    /\ UNCHANGED <<zone, weekly, fetched>>
    /\ UNCHANGED <<svars, cvars, signups>>

NextWeekly ==
    \/ \E t \in Instants : weekly = NoWeekly /\ Tick(t)
    \/ \E s \in Sessions, entryText \in WeekTexts :
          /\ weekly = NoWeekly
          /\ Len(journalEntries) < MaxWeekEntries
          /\ CreateEntry(s, entryText, 0, NoFailure, TRUE)
    \/ \E s \in Sessions, failing \in {NoFailure, "getUserEntriesInDateRange"},
          lateFrom \in LateFroms, order \in DescOrders :
          weekly = NoWeekly /\ WeeklyMood(s, failing, lateFrom, order)

SpecWeekly == InitWeekly /\ [][NextWeekly]_vars

(***************************************************************************)
(* Two users who share a browser session one after the other: signup,      *)
(* login, logout, entries, reveals and the mood chart.                     *)
(***************************************************************************)
\* journal entries posted by the two users together
MaxTwoEntries == 2

TwoEmails == {"a@x.org", "b@x.org"}
TwoPasswords == {"password1", "password2"}

\* the password each of the two signs up with
passwordAtSignup ==
    [email \in TwoEmails |-> IF email = "a@x.org" THEN "password1" ELSE "password2"]

\* the server has started: no user, no session with a userId, the initial
\* quotes
InitTwo ==
    /\ users = <<>>
    /\ journalEntries = <<>>
    /\ session = [s \in Sessions |-> 0]
    /\ transporter = "null"
    /\ alerts = <<>>
    /\ response = 0
    /\ catalogue = initializeQuotes({})
    /\ ClockIdle
    /\ signups = NoSignups
    /\ ClassifierIdle

NextTwo ==
    \/ \E s \in Sessions, email \in TwoEmails :
          weekly = NoWeekly /\ Signup(s, email, passwordAtSignup[email], "t1@x.org")
    \/ \E s \in Sessions, email \in TwoEmails, password \in TwoPasswords :
          weekly = NoWeekly /\ Login(s, email, password)
    \/ \E s \in Sessions : weekly = NoWeekly /\ Logout(s)
    \/ \E s \in Sessions, entryText \in WeekTexts :
          /\ weekly = NoWeekly
          /\ Len(journalEntries) < MaxTwoEntries
          /\ CreateEntry(s, entryText, 0, NoFailure, TRUE)
    \/ \E s \in Sessions, entryId \in 1..MaxTwoEntries :
          weekly = NoWeekly /\ GetEntry(s, entryId)
    \/ \E s \in Sessions, entryId \in 1..MaxTwoEntries :
          weekly = NoWeekly /\ RevealQuote(s, entryId)
    \/ \E s \in Sessions, order \in DescOrders :
          weekly = NoWeekly /\ WeeklyMood(s, NoFailure, 3 + Len(loopOffsets), order)

SpecTwo == InitTwo /\ [][NextTwo]_vars

(***************************************************************************)
(* Concurrent signups.  The handler of POST /api/auth/signup gives way at  *)
(* each await: the requests interleave between the query of                *)
(* getUserByEmail and the insert of createUser.  bcrypt.hash touches no    *)
(* shared state and is part of the second step.                            *)
(***************************************************************************)
\* signup requests received
MaxSignups == 3

SignupSessions == {"s1", "s2"}

\* varchar("email").notNull().unique(): the insert of a row whose e-mail
\* a row already has is rejected
uniqueViolated(email) == \E i \in 1..Len(users) : users[i].email = email

\* the request is received: insertUserSchema.parse, then the answer of
\* the query of getUserByEmail
SignupCheck(s, email, password, trustedEmail) ==
    LET request == [s |-> s, email |-> email, password |-> password,
                    trustedEmail |-> trustedEmail]
    IN  /\ Len(signups) < MaxSignups
        /\ IF Len(password) < 1
           THEN /\ signups' = Append(signups, request @@ [at |-> "done", status |-> 400])
                /\ Answer(SignupRoute, 400)
           ELSE IF getUserByEmail(email) # 0
           THEN /\ signups' = Append(signups, request @@ [at |-> "done", status |-> 409])
                /\ Answer(SignupRoute, 409)
           ELSE /\ signups' = Append(signups, request @@ [at |-> "checked", status |-> 0])
                /\ UNCHANGED response
        /\ UNCHANGED <<users, journalEntries, session, transporter, alerts>>
        /\ UNCHANGED <<catalogue, cvars, wvars>>

\* the rest of the handler: bcrypt.hash, the insert of createUser, whose
\* rejection is caught and answered 400, the session and the answer
SignupCreate(r) ==
    /\ r \in 1..Len(signups)
    /\ signups[r].at = "checked"
    /\ IF uniqueViolated(signups[r].email)
       THEN /\ signups' = [signups EXCEPT ![r].at = "done", ![r].status = 400]
            /\ Answer(SignupRoute, 400)
            /\ UNCHANGED <<users, session>>
       ELSE /\ users' = Append(users,
                   [email |-> signups[r].email,
                    passwordHash |-> bcryptHash(signups[r].password),
                    trustedEmail |-> signups[r].trustedEmail])
            /\ session' = [session EXCEPT ![signups[r].s] = Len(users) + 1]
            /\ signups' = [signups EXCEPT ![r].at = "done", ![r].status = 200]
            /\ Answer(SignupRoute, 200)
    /\ UNCHANGED <<journalEntries, transporter, alerts>>
    /\ UNCHANGED <<catalogue, cvars, wvars>>

InitSignup ==
    /\ users = <<>>
    /\ journalEntries = <<>>
    /\ session = [s \in SignupSessions |-> 0]
    /\ transporter = "null"
    /\ alerts = <<>>
    /\ response = 0
    /\ catalogue = initializeQuotes({})
    /\ ClockIdle
    /\ signups = NoSignups
    /\ ClassifierIdle

NextSignup ==
    \/ \E s \in SignupSessions, email \in TwoEmails :
          SignupCheck(s, email, passwordAtSignup[email], "t1@x.org")
    \/ \E r \in 1..MaxSignups : SignupCreate(r)

SpecSignup == InitSignup /\ [][NextSignup]_vars

(***************************************************************************)
(* Vocabulary of the properties of the classifier, stated on the text      *)
(* itself and not through the operators of analyzeSentiment.               *)
(***************************************************************************)
ScoredMoods == <<"happy", "sad", "anxious">>

\* keyword occurs in t at position i, letters compared without regard to case
OccursIgnoreCaseAt(t, keyword, i) ==
    /\ i >= 1
    /\ i + Len(keyword) - 1 <= Len(t)
    /\ \A j \in 1..Len(keyword) : toLowerChar(t[i + j - 1]) = toLowerChar(keyword[j])

\* t contains a crisis keyword as a substring, in any letter case
ContainsCrisisKeyword(t) ==
    \E k \in 1..Len(moodKeywords.suicidal) : \E i \in 1..Len(t) :
        OccursIgnoreCaseAt(t, moodKeywords.suicidal[k], i)

\* the occurrence of keyword at i is a whole word: no word character on
\* either side of it
WholeWordAt(t, keyword, i) ==
    /\ OccursIgnoreCaseAt(t, keyword, i)
    /\ (i = 1 \/ t[i - 1] \notin WordChars)
    /\ (i + Len(keyword) > Len(t) \/ t[i + Len(keyword)] \notin WordChars)

WholeWordCount(t, keyword) ==
    Cardinality({i \in 1..Len(t) : WholeWordAt(t, keyword, i)})

RECURSIVE SumWholeWords(_, _, _)
SumWholeWords(t, keywords, k) ==
    IF k > Len(keywords) THEN 0
    ELSE WholeWordCount(t, keywords[k]) + SumWholeWords(t, keywords, k + 1)

\* the category sum of a mood: the whole-word occurrences of its keywords
CategorySum(t, mood) == SumWholeWords(t, moodKeywords[mood], 1)

\* a keyword of a scored category occurs in t inside a longer word
HasEmbeddedKeyword(t) ==
    \E m \in 1..Len(ScoredMoods) : \E k \in 1..Len(moodKeywords[ScoredMoods[m]]) :
        \E i \in 1..Len(t) :
            /\ OccursIgnoreCaseAt(t, moodKeywords[ScoredMoods[m]][k], i)
            /\ ~WholeWordAt(t, moodKeywords[ScoredMoods[m]][k], i)

\* the largest category sum
TopSum(t) ==
    CHOOSE n \in {CategorySum(t, ScoredMoods[m]) : m \in 1..Len(ScoredMoods)} :
        \A m \in 1..Len(ScoredMoods) : CategorySum(t, ScoredMoods[m]) <= n

\* the categories that reach the largest sum, as indices of ScoredMoods
TopMoods(t) == {m \in 1..Len(ScoredMoods) : CategorySum(t, ScoredMoods[m]) = TopSum(t)}

\* the first category of the priority order happy > sad > anxious among those
FirstTopMood(t) == ScoredMoods[CHOOSE m \in TopMoods(t) : \A n \in TopMoods(t) : m <= n]

\* a category wins by scoring
WinsByScoring(t) == ~ContainsCrisisKeyword(t) /\ TopSum(t) > 0

\* the number of whitespace-delimited tokens: the maximal runs of
\* characters that are not whitespace
TokenCount(t) ==
    Cardinality({i \in 1..Len(t) :
        t[i] \notin SpaceChars /\ (i = 1 \/ t[i - 1] \in SpaceChars)})

\* t without its leading and trailing whitespace
Trimmed(t) ==
    LET ink == {i \in 1..Len(t) : t[i] \notin SpaceChars}
    IN  IF ink = {} THEN <<>>
        ELSE SubSeq(t, CHOOSE i \in ink : \A j \in ink : i <= j,
                       CHOOSE i \in ink : \A j \in ink : i >= j)

Returned == outcome = "returned"

(***************************************************************************)
(* Properties of analyzeSentiment, checked under SpecClassify.             *)
(***************************************************************************)

\* C1: a text that contains a crisis keyword as a substring, in any letter
\* case and at any position, is classified suicidal with confidence 0.9 and
\* isCrisis = true, whatever other keywords it contains.
C1_CrisisKeywordWins ==
    (Returned /\ ContainsCrisisKeyword(input)) =>
        /\ result.mood = "suicidal"
        /\ RatEq(result.confidence, Rat(9, 10))
        /\ result.isCrisis = TRUE

\* a crisis keyword with upper-case letters, glued to other letters, next
\* to a whole-word happy keyword
C1_Witness ==
    /\ Returned
    /\ ContainsCrisisKeyword(input)
    /\ ~includes(input, moodKeywords.suicidal[5])
    /\ CategorySum(input, "happy") > 0
    /\ result.mood = "suicidal"

\* C2: in every result, isCrisis is true if and only if the mood is
\* suicidal.
C2_CrisisIffSuicidal ==
    Returned => (result.isCrisis <=> result.mood = "suicidal")

C2_Witness == Returned /\ result.isCrisis /\ result.mood = "suicidal"

\* C5: analyzeSentiment fails with an InvalidInputError on the empty text
\* instead of returning a result.
C5_EmptyTextFails ==
    (outcome # "pending" /\ input = <<>>) => outcome = "InvalidInputError"

\* C6: a text with no crisis keyword and no whole-word keyword of any
\* scored category is classified neutral with confidence 0.5 and
\* isCrisis = false.
C6_NoMatchIsNeutral ==
    (/\ Returned
     /\ ~ContainsCrisisKeyword(input)
     /\ \A m \in 1..Len(ScoredMoods) : CategorySum(input, ScoredMoods[m]) = 0)
    => /\ result.mood = "neutral"
       /\ RatEq(result.confidence, Rat(5, 10))
       /\ result.isCrisis = FALSE

\* a keyword occurs, but only inside a longer word
C6_Witness ==
    /\ Returned
    /\ ~ContainsCrisisKeyword(input)
    /\ \A m \in 1..Len(ScoredMoods) : CategorySum(input, ScoredMoods[m]) = 0
    /\ HasEmbeddedKeyword(input)
    /\ result.mood = "neutral"

\* C7: for a text with no crisis keyword the mood is happy, sad, anxious or
\* neutral, and it is neutral only when the three category sums are zero.
C7_ScoringNeverCrisis ==
    (Returned /\ ~ContainsCrisisKeyword(input)) =>
        /\ result.mood \in {"happy", "sad", "anxious", "neutral"}
        /\ (result.mood = "neutral" =>
                \A m \in 1..Len(ScoredMoods) : CategorySum(input, ScoredMoods[m]) = 0)

C7_Witness ==
    /\ Returned
    /\ ~ContainsCrisisKeyword(input)
    /\ CategorySum(input, "anxious") > 0
    /\ result.mood = "anxious"

\* C8: when two or more of happy, sad, anxious tie for the largest non-zero
\* sum, the mood is the first of them in the order happy > sad > anxious,
\* wherever their keywords stand in the text.
C8_TieFollowsPriority ==
    (Returned /\ WinsByScoring(input) /\ Cardinality(TopMoods(input)) >= 2) =>
        result.mood = FirstTopMood(input)

\* a tie of sad and happy in a text that begins with the sad keyword
C8_Witness ==
    /\ Returned
    /\ WinsByScoring(input)
    /\ Cardinality(TopMoods(input)) >= 2
    /\ WholeWordAt(input, moodKeywords.sad[1], 1)
    /\ result.mood = "happy"

\* C9: the confidence of every result is within [0, 1].
C9_ConfidenceInUnitInterval ==
    Returned =>
        /\ result.confidence[2] > 0
        /\ RatLeq(Rat(0, 1), result.confidence)
        /\ RatLeq(result.confidence, Rat(1, 1))

\* a text with more keyword matches than ten times fewer words: the cap
\* at 1 applies
C9_Witness ==
    /\ Returned
    /\ WinsByScoring(input)
    /\ TopSum(input) * 10 > Len(split(input))
    /\ RatEq(result.confidence, Rat(1, 1))

\* C10: when a category wins by scoring, the confidence is
\* min(categorySum / wordCount * 10, 1) with wordCount the number of
\* whitespace-delimited tokens, so that leading or trailing whitespace does
\* not change the confidence.
C10_ConfidenceByTokenCount ==
    (Returned /\ WinsByScoring(input)) =>
        /\ RatEq(result.confidence,
                 RatMin(Rat(TopSum(input) * 10, TokenCount(input)), Rat(1, 1)))
        /\ RatEq(result.confidence, analyzeSentiment(Trimmed(input)).confidence)

\* C11: for happy, sad and anxious, the score the loop gives a category is
\* the total of the whole-word occurrences of its keywords in the text, in
\* any letter case, each occurrence counted once; an occurrence inside a
\* longer word adds nothing.
C11_ScoreIsWholeWordCount ==
    (Returned /\ ~result.isCrisis) =>
        \A m \in 1..Len(ScoredMoods) :
            scoreOf(toLowerCase(input), ScoredMoods[m]) = CategorySum(input, ScoredMoods[m])

\* the same keyword twice as a whole word: the category scores 2
C11_Witness ==
    /\ Returned
    /\ ~result.isCrisis
    /\ WholeWordCount(input, moodKeywords.happy[1]) = 2
    /\ scoreOf(toLowerCase(input), "happy") = 2

\* C12: a text with at least one whole-word happy keyword, no whole-word
\* sad or anxious keyword and no crisis keyword is classified happy, with
\* isCrisis = false and a confidence above 0.
C12_HappyTextIsHappy ==
    (/\ Returned
     /\ CategorySum(input, "happy") >= 1
     /\ CategorySum(input, "sad") = 0
     /\ CategorySum(input, "anxious") = 0
     /\ ~ContainsCrisisKeyword(input))
    => /\ result.mood = "happy"
       /\ result.isCrisis = FALSE
       /\ result.confidence[1] > 0
       /\ result.confidence[2] > 0

\* a happy keyword among words that are no keyword
C12_Witness ==
    /\ Returned
    /\ CategorySum(input, "happy") = 1
    /\ CategorySum(input, "sad") = 0
    /\ CategorySum(input, "anxious") = 0
    /\ ~ContainsCrisisKeyword(input)
    /\ TokenCount(input) > 1
    /\ result.mood = "happy"

\* the tags of the quote catalogue
QuoteTags == {"happy", "sad", "anxious", "general"}

\* the tag the mapping is to give each mood
QuoteTagOf ==
    [happy |-> "happy", sad |-> "sad", suicidal |-> "sad",
     anxious |-> "anxious", neutral |-> "general"]

\* C13: getMoodQuoteTag maps every mood to a tag, happy to happy, sad and
\* suicidal to sad, anxious to anxious and neutral to general, and each of
\* the four tags is the tag of some mood; so it is for the mood of every
\* result the classifier returns.
C13_QuoteTagMapping ==
    /\ \A mood \in MoodType : getMoodQuoteTag(mood) = QuoteTagOf[mood]
    /\ \A tag \in QuoteTags : \E mood \in MoodType : getMoodQuoteTag(mood) = tag
    /\ Returned => getMoodQuoteTag(result.mood) = QuoteTagOf[result.mood]

\* a crisis result, whose quote is drawn from the sad quotes
C13_Witness ==
    /\ Returned
    /\ result.mood = "suicidal"
    /\ getMoodQuoteTag(result.mood) = "sad"

(***************************************************************************)
(* Properties of the journal routes, checked under Spec.                   *)
(***************************************************************************)
\* a step of POST /api/journal/entries by session s with text entryText
CreateEntryBy(s, entryText) ==
    \E k \in 0..(RandomSteps - 1), failing \in StorageCalls, mailOk \in BOOLEAN :
        CreateEntry(s, entryText, k, failing, mailOk)

\* the step calls sendCrisisAlert once, for entryText and to trustedEmail
AlertsOnce(entryText, trustedEmail) ==
    /\ Len(alerts') = Len(alerts) + 1
    /\ SubSeq(alerts', 1, Len(alerts)) = alerts
    /\ alerts'[Len(alerts')].entryText = entryText
    /\ alerts'[Len(alerts')].trustedPersonEmail = trustedEmail

\* C3: whenever a logged-in user posts an entry whose text is classified
\* as crisis, sendCrisisAlert is called for the user's trusted e-mail
\* address before the request is answered, whatever becomes of the storage
\* calls of the request.
C3_CrisisEntryAlwaysAlerts ==
    [][\A s \in Sessions, entryText \in EntryTexts :
          (/\ requireAuth(s)
           /\ ContainsCrisisKeyword(entryText)
           /\ CreateEntryBy(s, entryText))
          => AlertsOnce(entryText, users[session[s]].trustedEmail)]_vars

\* C4: sendCrisisAlert is called only in a step that creates a journal
\* entry, and only for the text of that entry, which is classified as
\* crisis; no other route and no entry of another mood adds an alert.
C4_AlertOnlyOnCrisisEntry ==
    [][alerts' # alerts =>
          /\ Len(journalEntries') = Len(journalEntries) + 1
          /\ SubSeq(journalEntries', 1, Len(journalEntries)) = journalEntries
          /\ LET entry == journalEntries'[Len(journalEntries')]
             IN  /\ entry.detectedMood = "suicidal"
                 /\ ContainsCrisisKeyword(entry.entryText)
                 /\ AlertsOnce(entry.entryText, users[entry.userId].trustedEmail)
                 /\ \E s \in Sessions : CreateEntryBy(s, entry.entryText)]_vars

\* a crisis entry is stored, its alert went to the trusted address of its
\* author and the request was answered with the entry
C4_Witness ==
    /\ Len(journalEntries) = 1
    /\ journalEntries[1].detectedMood = "suicidal"
    /\ Len(alerts) = 1
    /\ alerts[1].entryText = journalEntries[1].entryText
    /\ alerts[1].trustedPersonEmail = users[journalEntries[1].userId].trustedEmail
    /\ response = 200

(***************************************************************************)
(* Properties of the quote of a new entry, checked under Spec.             *)
(***************************************************************************)
\* the quotes of the table that carry a tag
CandidateIds(tag) == {id \in catalogue : quotes[id] = tag}

\* the candidates for the quote of a stored entry
CandidatesOf(entry) == CandidateIds(QuoteTagOf[entry.detectedMood])

\* C14: the index chosen among the candidate quotes is within
\* 0..length-1 for every value of the random source, and every stored entry
\* whose tag has candidates in the table carries a quote, which is one of
\* those candidates.
C14_QuoteFromCandidates ==
    /\ \A length \in 1..Len(quotes), k \in 0..(RandomSteps - 1) :
          randomIndex(k, length) \in 0..(length - 1)
    /\ \A j \in 1..Len(journalEntries) :
          CandidatesOf(journalEntries[j]) # {} =>
              journalEntries[j].quoteId \in CandidatesOf(journalEntries[j])

\* an entry whose quote is a candidate other than the first one
C14_Witness ==
    \E j \in 1..Len(journalEntries) :
        /\ journalEntries[j].quoteId \in CandidatesOf(journalEntries[j])
        /\ \E id \in CandidatesOf(journalEntries[j]) : id < journalEntries[j].quoteId

\* C15: when the table has no quote of the entry's tag, a request to
\* create an entry whose storage calls succeed stores the entry with
\* quoteId = null and is answered with the entry.
C15_NoCandidateNoQuote ==
    [][\A s \in Sessions, entryText \in EntryTexts,
          k \in 0..(RandomSteps - 1), mailOk \in BOOLEAN :
          (/\ requireAuth(s)
           /\ entryText # <<>>
           /\ CandidateIds(QuoteTagOf[sentimentOf(entryText).mood]) = {}
           /\ CreateEntry(s, entryText, k, NoFailure, mailOk))
          => /\ Len(journalEntries') = Len(journalEntries) + 1
             /\ journalEntries'[Len(journalEntries')].entryText = entryText
             /\ journalEntries'[Len(journalEntries')].quoteId = 0
             /\ response' = 200]_vars

\* an entry stored without a quote, its request answered with it
C15_Witness ==
    /\ Len(journalEntries) >= 1
    /\ CandidatesOf(journalEntries[Len(journalEntries)]) = {}
    /\ journalEntries[Len(journalEntries)].quoteId = 0
    /\ response = 200

(***************************************************************************)
(* Properties of GET /api/mood/weekly, checked under SpecWeekly.  The      *)
(* observations of a request are the entries it fetched from the table.    *)
(***************************************************************************)
\* the UTC calendar day of a time
UtcDay(t) == CHOOSE d \in -10..10 : d * HoursPerDay <= t /\ t < (d + 1) * HoursPerDay

\* a request has been answered with the chart
Charted == weekly # NoWeekly

\* the observations of a day: the fetched entries of that UTC day
ObservedOn(day) == {j \in 1..Len(fetched) : UtcDay(fetched[j].createdAt) = day}

\* how many of the observations have a mood
Frequency(obs, mood) == Cardinality({j \in obs : fetched[j].detectedMood = mood})

\* the moods of the highest frequency among the observations
Winners(obs) ==
    {mood \in MoodType :
        /\ Frequency(obs, mood) > 0
        /\ \A other \in MoodType : Frequency(obs, other) <= Frequency(obs, mood)}

\* two stored entries of one UTC day
SameDay(a, b) == UtcDay(journalEntries[a].createdAt) = UtcDay(journalEntries[b].createdAt)

\* C16: the chart has 7 points for 7 consecutive UTC days, oldest first,
\* the last one the day of the request, whenever the request is made,
\* whatever the time zone of the server, also when midnight passes during
\* the request or the offset of the zone changes within the week.
C16_SevenConsecutiveDays ==
    Charted =>
        /\ Len(weekly) = 7
        /\ \A n \in 1..(Len(weekly) - 1) : weekly[n + 1].date = weekly[n].date + 1
        /\ weekly[Len(weekly)].date = UtcDay(clock)

\* C17: the chart has exactly 7 points, whatever entries the table holds.
C17_AlwaysSevenPoints ==
    Charted => Len(weekly) = 7

\* a chart for a user with an entry older than its first day and an entry
\* within its days
C17_Witness ==
    /\ Charted
    /\ Len(weekly) = 7
    /\ \E j \in 1..Len(journalEntries) : UtcDay(journalEntries[j].createdAt) < weekly[1].date
    /\ \E n \in 1..Len(weekly) : weekly[n].entries > 0

\* C18: a point for a day on which two or more moods share the highest
\* frequency among the day's observations has the mood neutral and counts
\* all observations of the day, whichever moods tie and in whatever order
\* their entries were stored.
C18_TieIsNeutral ==
    Charted =>
        \A n \in 1..Len(weekly) :
            Cardinality(Winners(ObservedOn(weekly[n].date))) >= 2 =>
                /\ weekly[n].mood = "neutral"
                /\ weekly[n].entries = Cardinality(ObservedOn(weekly[n].date))

\* a day with a sad entry stored before a happy one, charted neutral with
\* 2 entries
C18_Witness ==
    /\ Charted
    /\ \E n \in 1..Len(weekly) :
          /\ weekly[n].mood = "neutral"
          /\ weekly[n].entries = 2
          /\ \E a \in 1..Len(journalEntries), b \in 1..Len(journalEntries) :
                /\ a < b
                /\ SameDay(a, b)
                /\ UtcDay(journalEntries[a].createdAt) = weekly[n].date
                /\ journalEntries[a].detectedMood = "sad"
                /\ journalEntries[b].detectedMood = "happy"

\* C19: a point for a day on which one mood alone has the highest
\* frequency among the day's observations has that mood.
C19_MajorityWins ==
    Charted =>
        \A n \in 1..Len(weekly) :
            Cardinality(Winners(ObservedOn(weekly[n].date))) = 1 =>
                {weekly[n].mood} = Winners(ObservedOn(weekly[n].date))

\* a day with the moods sad, happy, happy, charted happy with 3 entries
C19_Witness ==
    /\ Charted
    /\ Len(journalEntries) = 3
    /\ journalEntries[1].detectedMood = "sad"
    /\ journalEntries[2].detectedMood = "happy"
    /\ journalEntries[3].detectedMood = "happy"
    /\ \E n \in 1..Len(weekly) :
          /\ weekly[n].mood = "happy"
          /\ weekly[n].entries = 3

C21_EntryCountIsTotal ==
    Charted =>
        \A n \in 1..Len(weekly) :
            weekly[n].entries = Cardinality(ObservedOn(weekly[n].date))

\* a day with two happy observations and a sad one, charted with 3 entries
C21_Witness ==
    /\ Charted
    /\ \E n \in 1..Len(weekly) :
          /\ Frequency(ObservedOn(weekly[n].date), "happy") = 2
          /\ Frequency(ObservedOn(weekly[n].date), "sad") = 1
          /\ weekly[n].entries = 3

\* the stored entries of the logged-in users made on a UTC day
OwnEntriesOn(day) ==
    {j \in 1..Len(journalEntries) :
        /\ \E s \in DOMAIN session : journalEntries[j].userId = session[s]
        /\ UtcDay(journalEntries[j].createdAt) = day}

\* C22: every entry of the user made on one of the UTC days of the chart
\* is counted in the point of that day, also an entry of the oldest day
\* made at an earlier time of day than the request, and every fetched entry
\* is counted in some point.
C22_WholeDaysCounted ==
    Charted =>
        /\ \A n \in 1..Len(weekly) :
              weekly[n].entries = Cardinality(OwnEntriesOn(weekly[n].date))
        /\ \A j \in 1..Len(fetched) :
              \E n \in 1..Len(weekly) : weekly[n].date = UtcDay(fetched[j].createdAt)

\* the texts a client posts that contain a crisis keyword
CrisisTexts == {t \in EntryTexts : ContainsCrisisKeyword(t)}

\* the step stores an entry of the session's user with the text and
\* answers 200
StoredAndAnswered(s, entryText) ==
    /\ Len(journalEntries') = Len(journalEntries) + 1
    /\ journalEntries'[Len(journalEntries')].entryText = entryText
    /\ journalEntries'[Len(journalEntries')].userId = session[s]
    /\ response' = 200

\* a request of the session with the text whose alert is not delivered:
\* no transporter, or sendMail fails
UndeliveredRequest(s, entryText) ==
    \E k \in 0..(RandomSteps - 1), mailOk \in BOOLEAN :
        /\ ~(transporter = "ready" /\ mailOk)
        /\ CreateEntry(s, entryText, k, NoFailure, mailOk)

\* C23: when the crisis alert of an entry cannot be delivered (no
\* transporter, or sendMail fails), the entry is stored all the same and
\* the request is answered with it, status 200; no later request removes
\* a stored entry.
C23_AlertFailureKeepsEntry ==
    [][/\ \A s \in DOMAIN session, entryText \in CrisisTexts :
             session[s] # 0 =>
                (StoredAndAnswered(s, entryText) \/ ~UndeliveredRequest(s, entryText))
       /\ \A j \in 1..Len(journalEntries) :
             /\ j <= Len(journalEntries')
             /\ journalEntries'[j].entryText = journalEntries[j].entryText
      ]_vars

\* a transporter is configured, the alert of the last entry was not
\* delivered, the entry is stored and the request answered 200
C23_Witness ==
    /\ transporter = "ready"
    /\ Len(alerts) > 0
    /\ Len(journalEntries) > 0
    /\ ~alerts[Len(alerts)].delivered
    /\ alerts[Len(alerts)].entryText = journalEntries[Len(journalEntries)].entryText
    /\ response = 200

\* a request that is turned away: status 401 and no entry, no reveal, no
\* alert, no change of a user, no chart
TurnedAway ==
    /\ response' = 401
    /\ UNCHANGED <<users, journalEntries, alerts, weekly, fetched, session>>

\* a step that a request of the session to a journal, mood or profile
\* route can take
GuardedRequest(s) ==
    \/ \E entryText \in EntryTexts, k \in 0..(RandomSteps - 1),
          failing \in StorageCalls, mailOk \in BOOLEAN :
          CreateEntry(s, entryText, k, failing, mailOk)
    \/ ListEntries(s)
    \/ \E entryId \in 1..MaxEntries : GetEntry(s, entryId) \/ RevealQuote(s, entryId)
    \/ \E failing \in {NoFailure, "getUserEntriesInDateRange"}, order \in DescOrders :
          WeeklyMood(s, failing, 3 + Len(loopOffsets), order)
    \/ \E currentPassword \in Passwords, newPassword \in Passwords :
          ChangePassword(s, currentPassword, newPassword)
    \/ \E trustedEmail \in TrustedEmails : UpdateTrustedEmail(s, trustedEmail)

\* C24: a request of a session without userId to a journal, mood or
\* profile route is answered 401 and creates no entry, reveals no quote,
\* updates no password or trusted e-mail and sends no alert; while no
\* session has a userId no request whatever changes an entry, an alert
\* or an existing user.
C24_GuardedRoutes ==
    [][/\ \A s \in DOMAIN session :
             session[s] = 0 => (TurnedAway \/ ~GuardedRequest(s))
       /\ (\A s \in DOMAIN session : session[s] = 0) =>
             /\ journalEntries' = journalEntries
             /\ alerts' = alerts
             /\ \A i \in 1..Len(users) : i <= Len(users') /\ users'[i] = users[i]
      ]_vars

\* a user with an unrevealed entry has logged out and the next request
\* was answered 401
C24_Witness ==
    /\ \A s \in DOMAIN session : session[s] = 0
    /\ Len(users) > 0
    /\ Len(journalEntries) > 0
    /\ ~journalEntries[1].isQuoteRevealed
    /\ response = 401

\* the id is not that of an entry of the user of the session
NotOwnEntry(s, entryId) ==
    \/ entryId \notin 1..Len(journalEntries)
    \/ journalEntries[entryId].userId # session[s]

\* C25: for the id of no entry or of an entry of another user, reading
\* the entry and revealing its quote are answered 404 and leave every
\* entry, its isQuoteRevealed included, as it was.
C25_OwnEntriesOnly ==
    [][\A s \in DOMAIN session, entryId \in 1..MaxTwoEntries :
          (session[s] # 0 /\ NotOwnEntry(s, entryId)) =>
             /\ GetEntry(s, entryId) =>
                   (response' = 404 /\ journalEntries' = journalEntries)
             /\ RevealQuote(s, entryId) =>
                   (response' = 404 /\ journalEntries' = journalEntries)
      ]_vars

\* the second user is logged in, the only entry is an unrevealed entry of
\* the first user, and the request was answered 404
C25_Witness ==
    /\ \E s \in DOMAIN session : session[s] = 2
    /\ Len(journalEntries) = 1
    /\ journalEntries[1].userId = 1
    /\ ~journalEntries[1].isQuoteRevealed
    /\ response = 404

\* the stored entries of a user made on a UTC day
EntriesOfOn(userId, day) ==
    {j \in 1..Len(journalEntries) :
        /\ journalEntries[j].userId = userId
        /\ UtcDay(journalEntries[j].createdAt) = day}

\* how many of a set of stored entries have a mood
StoredFrequency(own, mood) ==
    Cardinality({j \in own : journalEntries[j].detectedMood = mood})

\* the moods of the highest frequency among a set of stored entries
StoredWinners(own) ==
    {mood \in MoodType :
        /\ StoredFrequency(own, mood) > 0
        /\ \A other \in MoodType :
              StoredFrequency(own, other) <= StoredFrequency(own, mood)}

\* C26: the chart of a user is made of the user's own entries only: every
\* point has the number of entries and the dominant mood of the entries of
\* the user who asked, whatever entries another user has created.
C26_OthersEntriesNotCharted ==
    Charted =>
        \E s \in DOMAIN session :
            /\ session[s] # 0
            /\ \A n \in 1..Len(weekly) :
                  LET own == EntriesOfOn(session[s], weekly[n].date)
                  IN  /\ weekly[n].entries = Cardinality(own)
                      /\ weekly[n].mood =
                            IF Cardinality(StoredWinners(own)) = 1
                            THEN CHOOSE mood \in StoredWinners(own) : TRUE
                            ELSE "neutral"

\* a chart was answered to a user with an entry of today while the other
\* user has an entry of today as well: the last point counts one entry
C26_Witness ==
    /\ Charted
    /\ Len(fetched) = 1
    /\ Len(journalEntries) = 2
    /\ journalEntries[1].userId # journalEntries[2].userId
    /\ journalEntries[1].detectedMood # journalEntries[2].detectedMood
    /\ \E s \in DOMAIN session : session[s] = fetched[1].userId
    /\ weekly[Len(weekly)].entries = 1
    /\ weekly[Len(weekly)].mood = fetched[1].detectedMood

\* C27: isQuoteRevealed only ever goes from false to true: an entry is
\* created with false, a reveal by the owner is answered 200 and sets it
\* to true, no step sets it back to false, and the reveal of a revealed
\* entry leaves users, entries, sessions and alerts as they were.
C27_RevealIsMonotonic ==
    [][/\ \A j \in 1..Len(journalEntries) :
             /\ j <= Len(journalEntries')
             /\ journalEntries[j].isQuoteRevealed => journalEntries'[j].isQuoteRevealed
       /\ \A j \in (Len(journalEntries) + 1)..Len(journalEntries') :
             ~journalEntries'[j].isQuoteRevealed
       /\ \A s \in DOMAIN session, entryId \in 1..Len(journalEntries) :
             ( /\ session[s] # 0
               /\ journalEntries[entryId].userId = session[s]
               /\ RevealQuote(s, entryId) )
             => /\ journalEntries'[entryId].isQuoteRevealed
                /\ response' = 200
                /\ journalEntries[entryId].isQuoteRevealed =>
                      UNCHANGED <<users, journalEntries, session, alerts>>
      ]_vars

\* two entries of one user, the first revealed and the second not, after
\* a reveal that was answered 200
C27_Witness ==
    /\ Len(journalEntries) = 2
    /\ journalEntries[1].userId = journalEntries[2].userId
    /\ journalEntries[1].isQuoteRevealed
    /\ ~journalEntries[2].isQuoteRevealed
    /\ \E s \in DOMAIN session : session[s] = journalEntries[1].userId
    /\ response = 200

\* the users of an e-mail address whose password is the given one
Registered(email, password) ==
    {i \in 1..Len(users) :
        users[i].email = email /\ users[i].passwordHash = bcryptHash(password)}

\* no user has the e-mail address
Unused(email) == \A i \in 1..Len(users) : users[i].email # email

\* C29: the userId of a session is set only by a signup that creates a
\* user and by a login with the e-mail and the password of a user, to the
\* id of that user; a login that fails leaves the sessions as they were;
\* a logout clears the userId, and a session without userId is answered
\* 401 by the protected routes and stays without userId.
C29_SessionFollowsLogin ==
    [][\A s \in DOMAIN session :
          /\ \A email \in TwoEmails, password \in TwoPasswords :
                Login(s, email, password) =>
                   IF Registered(email, password) # {}
                   THEN session'[s] \in Registered(email, password) /\ response' = 200
                   ELSE session' = session /\ response' # 200
          /\ \A email \in TwoEmails :
                Signup(s, email, passwordAtSignup[email], "t1@x.org") =>
                   IF Unused(email)
                   THEN /\ session'[s] = Len(users) + 1
                        /\ Len(users') = Len(users) + 1
                        /\ users'[session'[s]].email = email
                        /\ response' = 200
                   ELSE session' = session /\ users' = users /\ response' # 200
          /\ Logout(s) => (session'[s] = 0 /\ response' = 200)
          /\ session'[s] # session[s] =>
                \/ Logout(s)
                \/ \E email \in TwoEmails, password \in TwoPasswords :
                      Registered(email, password) # {} /\ Login(s, email, password)
                \/ \E email \in TwoEmails :
                      /\ Unused(email)
                      /\ Signup(s, email, passwordAtSignup[email], "t1@x.org")
          /\ session[s] = 0 =>
                /\ \A entryText \in WeekTexts :
                      CreateEntry(s, entryText, 0, NoFailure, TRUE) =>
                         (response' = 401 /\ session' = session)
                /\ \A entryId \in 1..MaxTwoEntries :
                      /\ GetEntry(s, entryId) => (response' = 401 /\ session' = session)
                      /\ RevealQuote(s, entryId) => (response' = 401 /\ session' = session)
                /\ \A order \in DescOrders :
                      WeeklyMood(s, NoFailure, 3 + Len(loopOffsets), order) =>
                         (response' = 401 /\ session' = session)
      ]_vars

\* the session is that of the user who signed up second, the first user
\* has an entry, and the last request was answered 200
C29_Witness ==
    /\ Len(users) = 2
    /\ \E s \in DOMAIN session : session[s] = 2
    /\ Len(journalEntries) > 0
    /\ journalEntries[1].userId = 1
    /\ response = 200

\* no two users have the same e-mail address
UniqueEmails ==
    \A i \in 1..Len(users), j \in 1..Len(users) :
        users[i].email = users[j].email => i = j

\* C28: however concurrent signups interleave, no two users share an
\* e-mail address, and a signup that is answered while its e-mail address
\* is registered is answered 409 and creates no user and no session.
C28_ConcurrentSignups ==
    [][/\ UniqueEmails'
       /\ \A r \in 1..Len(signups') :
             ( /\ signups'[r].at = "done"
               /\ r \in 1..Len(signups) => signups[r].at # "done"
               /\ uniqueViolated(signups'[r].email) )
             => /\ signups'[r].status = 409
                /\ users' = users
                /\ session' = session
      ]_vars

\* the mood of a text by the rules of the classifier: a crisis keyword
\* makes it suicidal, else the first category of the largest sum of
\* whole-word keywords wins, and without any keyword it is neutral
ExpectedMood(t) ==
    IF ContainsCrisisKeyword(t) THEN "suicidal"
    ELSE IF TopSum(t) = 0 THEN "neutral"
    ELSE FirstTopMood(t)

\* ExpectedMood of the texts a client posts, computed once
ExpectedMoodOf == [t \in EntryTexts \cup WeekTexts |-> ExpectedMood(t)]

====
